---- MODULE Spec2Model ----
(***************************************************************************)
(* A model of nextpnr's router1 (common/router1.cc): the path search       *)
(* Router::route, the net router Router::Router(net), ripup_net and the    *)
(* rip-up loop router1().  The device, the netlist and the binding proxy   *)
(* (bindWire, unbindWire, bindPip, unbindPip, checkWireAvail, ...) are not *)
(* part of router1.cc; they are modelled from the specification.           *)
(***************************************************************************)
EXTENDS Integers, Sequences, FiniteSets, Bags, TLC

VARIABLES
    dev,            \* index of the device and netlist router1(ctx) runs on
    proxy,          \* binding state behind ctx->rwproxy()
    scores,         \* router1's RipupScoreboard (router1.cc:416)
    ripup_penalty,  \* router1's ripup_penalty (router1.cc:415)
    netsQueue,      \* router1.cc:421
    iterCnt,        \* router1.cc:494
    ripupQueue,     \* router1.cc:512
    netsArray,      \* the nets of netsArray not yet routed (router1.cc:519)
    ripupArray,     \* the nets of ripupArray not yet routed (router1.cc:571)
    pc,             \* position of router1()
    result,         \* how router1() ended
    router,         \* the Router object under construction (router1.cc:102)
    search,         \* the locals of Router::route (router1.cc:118)
    actual,         \* the call of Context::getActualRouteDelay (router1.cc:655)
    hist            \* observations of the run (history, not program state)

vars == <<dev, proxy, scores, ripup_penalty, netsQueue, iterCnt, ripupQueue,
          netsArray, ripupArray, pc, result, router, search, actual, hist>>

-----------------------------------------------------------------------------
(* Sentinels of the opaque identifier types.                               *)

NoWire == 0
NoPip == 0
NoNet == 0

\* the rng() values tiebreaks are drawn from: 0..MaxRand
MaxRand == 1
RngVals == 0..MaxRand

\* router1.cc:497
MaxIter == 200

EmptyMap == [x \in {} |-> 0]

Put(m, k, v) == [x \in (DOMAIN m) \cup {k} |-> IF x = k THEN v ELSE m[x]]

Erase(m, k) == [x \in (DOMAIN m) \ {k} |-> m[x]]

Abs(x) == IF x < 0 THEN 0 - x ELSE x

Max(a, b) == IF a >= b THEN a ELSE b

Range(s) == {s[i] : i \in DOMAIN s}

\* every order a shuffle can leave the elements of set S in
Orders(S) ==
    {f \in [1..Cardinality(S) -> S] : \A i, j \in 1..Cardinality(S) : f[i] = f[j] => i = j}

\* every order a shuffle can leave the sequence s in
Shuffles(s) ==
    {[i \in DOMAIN s |-> s[p[i]]] : p \in Orders(DOMAIN s)}

-----------------------------------------------------------------------------
(* Devices and netlists.  A pip is [src, dst, delay]; PipId p is the index *)
(* of the pip in the device's pip list.  pos places a wire on a line, and  *)
(* estimateDelay is the distance on that line.  A net is its driver wire   *)
(* and the wires of its users (bel pins already resolved to wires).        *)

P(s, d, dl) == [src |-> s, dst |-> d, delay |-> dl]

N(d, u) == [driver |-> d, users |-> u]

\* two nets, one bottleneck pip 3->4, no other path
DevBottleneck ==
    [nwires |-> 6,
     pips |-> <<P(1, 3, 1), P(2, 3, 1), P(3, 4, 1), P(4, 5, 1), P(4, 6, 1)>>,
     pos |-> <<0, 0, 1, 2, 3, 3>>,
     nets |-> <<N(1, <<5>>), N(2, <<6>>)>>,
     penalty |-> 2, epsilon |-> 0]

\* the bottleneck device with a longer detour 2->7->6 for the second net
DevDetour ==
    [nwires |-> 7,
     pips |-> <<P(1, 3, 1), P(2, 3, 1), P(3, 4, 1), P(4, 5, 1), P(4, 6, 1),
                P(2, 7, 2), P(7, 6, 3)>>,
     pos |-> <<0, 0, 1, 2, 3, 3, 1>>,
     nets |-> <<N(1, <<5>>), N(2, <<6>>)>>,
     penalty |-> 2, epsilon |-> 1]

\* the driver wire of the second net is the destination of a pip
DevDriverDst ==
    [nwires |-> 4,
     pips |-> <<P(1, 2, 1), P(2, 3, 1), P(2, 4, 1)>>,
     pos |-> <<0, 1, 2, 2>>,
     nets |-> <<N(1, <<3>>), N(2, <<4>>)>>,
     penalty |-> 1, epsilon |-> 0]

\* a two-sink net with spine wire 2, and a net competing for wire 3
DevSpine ==
    [nwires |-> 8,
     pips |-> <<P(1, 2, 1), P(2, 4, 1), P(2, 3, 1), P(3, 5, 1), P(6, 3, 1),
                P(3, 7, 1), P(6, 8, 2), P(8, 7, 2)>>,
     pos |-> <<0, 1, 2, 2, 3, 1, 3, 2>>,
     nets |-> <<N(1, <<4, 5>>), N(6, <<7>>)>>,
     penalty |-> 2, epsilon |-> 1]

\* net 1 has a sink no pip leads to; nets 2 and 3 compete for wire 6
DevUnroutable ==
    [nwires |-> 8,
     pips |-> <<P(1, 2, 1), P(4, 6, 1), P(5, 6, 1), P(6, 7, 1), P(6, 8, 1)>>,
     pos |-> <<0, 1, 2, 0, 0, 1, 2, 2>>,
     nets |-> <<N(1, <<2, 3>>), N(4, <<7>>), N(5, <<8>>)>>,
     penalty |-> 1, epsilon |-> 0]

\* two nets and two equal paths each, over wire 2 or over wire 3
DevDiamond ==
    [nwires |-> 6,
     pips |-> <<P(1, 2, 1), P(1, 3, 1), P(2, 4, 1), P(3, 4, 1),
                P(5, 2, 1), P(5, 3, 1), P(2, 6, 1), P(3, 6, 1)>>,
     pos |-> <<0, 1, 1, 2, 0, 2>>,
     nets |-> <<N(1, <<4>>), N(5, <<6>>)>>,
     penalty |-> 1, epsilon |-> 0]

\* one net; wire 2 is reached first over a slow pip and then over a faster
\* path, and wires 2 and 4 lie on a cycle of zero-delay pips
DevCycle ==
    [nwires |-> 5,
     pips |-> <<P(1, 2, 5), P(1, 3, 1), P(3, 2, 1), P(2, 4, 0), P(4, 2, 0),
                P(4, 5, 1)>>,
     pos |-> <<0, 2, 1, 2, 3>>,
     nets |-> <<N(1, <<5>>)>>,
     penalty |-> 1, epsilon |-> 0]

\* one net; wire 2 and the sink 5 are each reached first over a slow pip
\* and then over a faster path; estimateDelay is the least delay of a path
DevShortcut ==
    [nwires |-> 5,
     pips |-> <<P(1, 2, 5), P(1, 3, 1), P(3, 2, 1), P(2, 5, 8), P(2, 4, 1),
                P(4, 5, 1)>>,
     pos |-> <<0, 2, 1, 3, 4>>,
     nets |-> <<N(1, <<5>>)>>,
     penalty |-> 1, epsilon |-> 1]

\* one net; the sink 5 is reached over a slow pip, then over wire 2 at
\* delay 4 and over wire 3 at delay 3: the two differ by epsilon
DevEpsilon ==
    [nwires |-> 5,
     pips |-> <<P(1, 5, 10), P(1, 2, 1), P(1, 3, 1), P(1, 4, 1), P(2, 5, 3),
                P(3, 5, 2)>>,
     pos |-> <<0, 1, 1, 1, 3>>,
     nets |-> <<N(1, <<5>>)>>,
     penalty |-> 1, epsilon |-> 1]

\* one net; wire 2 is reached first over a slow pip and then over a faster
\* path, wires 2 and 4 lie on a cycle of zero-delay pips, and the sink 5 is
\* reached first over a slow pip, so that the visit budget ends the search
DevZeroLoop ==
    [nwires |-> 5,
     pips |-> <<P(1, 2, 5), P(1, 3, 1), P(3, 2, 1), P(2, 5, 8), P(2, 4, 0),
                P(4, 2, 0), P(4, 5, 1)>>,
     pos |-> <<0, 1, 1, 1, 2>>,
     nets |-> <<N(1, <<5>>)>>,
     penalty |-> 1, epsilon |-> 0]

DeviceList ==
    <<DevBottleneck, DevDetour, DevDriverDst, DevSpine, DevUnroutable, DevDiamond,
      DevCycle, DevShortcut, DevEpsilon, DevZeroLoop>>

D == DeviceList[dev]

Wires == 1..D.nwires

PipIds == 1..Len(D.pips)

Nets == 1..Len(D.nets)

getPipSrcWire(pip) == D.pips[pip].src

getPipDstWire(pip) == D.pips[pip].dst

avgDelay(pip) == D.pips[pip].delay

estimateDelay(a, b) == Abs(D.pos[a] - D.pos[b])

getDelayEpsilon == D.epsilon

getRipupDelayPenalty == D.penalty

RECURSIVE DownhillFrom(_, _)
DownhillFrom(w, p) ==
    IF p > Len(D.pips) THEN <<>>
    ELSE IF D.pips[p].src = w THEN <<p>> \o DownhillFrom(w, p + 1)
    ELSE DownhillFrom(w, p + 1)

getPipsDownhill(w) == DownhillFrom(w, 1)

\* the driver wire of a net (router1.cc:264-279, bel and pin resolved)
src_wire_of(net) == D.nets[net].driver

-----------------------------------------------------------------------------
(* The binding proxy: wire_to_net and pip_to_net say who owns a resource,  *)
(* wires[net] is NetInfo::wires, the map wire -> arriving pip of the net.  *)

checkWireAvail(px, wire) == px.wire_to_net[wire] = NoNet

checkPipAvail(px, pip) == px.pip_to_net[pip] = NoNet

getConflictingWireNet(px, wire) == px.wire_to_net[wire]

getConflictingPipNet(px, pip) == px.pip_to_net[pip]

bindWire(px, wire, net) ==
    [px EXCEPT !.wire_to_net[wire] = net,
               !.wires[net] = Put(@, wire, NoPip)]

unbindWire(px, wire) ==
    LET net == px.wire_to_net[wire]
        pip == px.wires[net][wire]
    IN  [px EXCEPT !.pip_to_net = IF pip # NoPip THEN [@ EXCEPT ![pip] = NoNet] ELSE @,
                   !.wires[net] = Erase(@, wire),
                   !.wire_to_net[wire] = NoNet]

bindPip(px, pip, net) ==
    LET dst == getPipDstWire(pip)
    IN  [px EXCEPT !.pip_to_net[pip] = net,
                   !.wire_to_net[dst] = net,
                   !.wires[net] = Put(@, dst, pip)]

unbindPip(px, pip) ==
    LET dst == getPipDstWire(pip)
        net == px.pip_to_net[pip]
    IN  [px EXCEPT !.wire_to_net[dst] = NoNet,
                   !.wires[net] = Erase(@, dst),
                   !.pip_to_net[pip] = NoNet]

-----------------------------------------------------------------------------
(* ripup_net (router1.cc:77-100)                                           *)

RECURSIVE UnbindPips(_, _)
UnbindPips(px, pips) ==
    IF pips = {} THEN px
    ELSE LET pip == CHOOSE p \in pips : \A q \in pips : p <= q
         IN  UnbindPips(unbindPip(px, pip), pips \ {pip})

RECURSIVE UnbindWires(_, _)
UnbindWires(px, wires) ==
    IF wires = {} THEN px
    ELSE LET wire == CHOOSE w \in wires : \A v \in wires : w <= v
         IN  UnbindWires(unbindWire(px, wire), wires \ {wire})

\* ripup_net that unbinds the pips and forgets the wires bound without a pip
ripup_net_PipsOnly(px, net_name) ==
    LET net_wires == px.wires[net_name]
        pips == {net_wires[w] : w \in {v \in DOMAIN net_wires : net_wires[v] # NoPip}}
    IN  UnbindPips(px, pips)

ripup_net(px, net_name) ==
    LET net_wires == px.wires[net_name]
        pips == {net_wires[w] : w \in {v \in DOMAIN net_wires : net_wires[v] # NoPip}}
        wires == {w \in DOMAIN net_wires : net_wires[w] = NoPip}
    IN  UnbindWires(UnbindPips(px, pips), wires)

-----------------------------------------------------------------------------
(* Router::route (router1.cc:118-223)                                      *)

QueuedWire(w, p, d, t, r) ==
    [wire |-> w, pip |-> p, delay |-> d, togo |-> t, randtag |-> r]

\* QueuedWire::Greater (router1.cc:59-66)
Greater(lhs, rhs) ==
    LET l == lhs.delay + lhs.togo
        r == rhs.delay + rhs.togo
    IN  IF l = r THEN lhs.randtag > rhs.randtag ELSE l > r

\* the entries queue.top() may return: no other entry is ordered before them
Tops(queue) ==
    {e \in BagToSet(queue) : \A f \in BagToSet(queue) : ~Greater(e, f)}

\* router1.cc:124-134; tags[w] is the rng() value drawn for source w
SourceEntries(src_wires, dst_wire, tags) ==
    [w \in DOMAIN src_wires |->
        QueuedWire(w, NoPip, src_wires[w], estimateDelay(w, dst_wire), tags[w])]

\* an unavailable wire is taken at a penalty with rip-up disabled too
WireSkipped_RipupAlways(r, px, next_wire) ==
    /\ ~checkWireAvail(px, next_wire)
    /\ \/ getConflictingWireNet(px, next_wire) = r.net_name
       \/ getConflictingWireNet(px, next_wire) = NoNet

\* router1.cc:152-168: the wire side of the availability check
WireSkipped(r, px, next_wire) ==
    /\ ~checkWireAvail(px, next_wire)
    /\ \/ ~r.ripup
       \/ getConflictingWireNet(px, next_wire) = r.net_name
       \/ getConflictingWireNet(px, next_wire) = NoNet

WirePenalty(r, px, next_wire) ==
    IF checkWireAvail(px, next_wire) THEN 0
    ELSE (r.scores.wireScores[next_wire] * r.ripup_penalty) \div 8
         + r.scores.netWireScores[<<getConflictingWireNet(px, next_wire), next_wire>>]
           * r.ripup_penalty

\* router1.cc:170-186: the pip side
PipSkipped(r, px, pip) ==
    /\ ~checkPipAvail(px, pip)
    /\ \/ ~r.ripup
       \/ getConflictingPipNet(px, pip) = r.net_name
       \/ getConflictingPipNet(px, pip) = NoNet

PipPenalty(r, px, pip) ==
    IF checkPipAvail(px, pip) THEN 0
    ELSE (r.scores.pipScores[pip] * r.ripup_penalty) \div 8
         + r.scores.netPipScores[<<getConflictingPipNet(px, pip), pip>>]
           * r.ripup_penalty

\* ripup_penalty is added for the wire and again for the pip
NextDelay_FlatPerResource(r, px, qw, pip) ==
    LET next_wire == getPipDstWire(pip)
    IN  qw.delay + avgDelay(pip)
        + WirePenalty(r, px, next_wire)
        + PipPenalty(r, px, pip)
        + (IF ~checkWireAvail(px, next_wire) THEN r.ripup_penalty ELSE 0)
        + (IF ~checkPipAvail(px, pip) THEN r.ripup_penalty ELSE 0)

\* router1.cc:147-189: next_delay of the neighbour over pip
NextDelay(r, px, qw, pip) ==
    LET next_wire == getPipDstWire(pip)
        foundRipupNet == ~checkWireAvail(px, next_wire) \/ ~checkPipAvail(px, pip)
    IN  qw.delay + avgDelay(pip)
        + WirePenalty(r, px, next_wire)
        + PipPenalty(r, px, pip)
        + (IF foundRipupNet THEN r.ripup_penalty ELSE 0)

\* the epsilon is forgotten: any lower delay is an improvement
NotImproved_NoEpsilon(visited, next_wire, next_delay) ==
    /\ next_wire \in DOMAIN visited
    /\ visited[next_wire].delay <= next_delay

\* a neighbour at a delay equal to the stored one counts as improved
NotImproved_OnTies(visited, next_wire, next_delay) ==
    /\ next_wire \in DOMAIN visited
    /\ visited[next_wire].delay < next_delay + getDelayEpsilon

\* router1.cc:193-195: the stored delay is not improved by more than epsilon
NotImproved(visited, next_wire, next_delay) ==
    /\ next_wire \in DOMAIN visited
    /\ visited[next_wire].delay <= next_delay + getDelayEpsilon

\* router1.cc:210-215: the record pushed for the neighbour; the rng() value
\* is assigned to qw.randtag, next_qw keeps the default randtag 0
NextQW(next_wire, pip, next_delay, dst_wire) ==
    QueuedWire(next_wire, pip, next_delay, estimateDelay(next_wire, dst_wire), 0)

\* thisVisitCnt counts the relaxations, not the pips examined
ExaminePip_CountsRelaxed(st, r, px, qw, pip, dst_wire) ==
    LET next_wire == getPipDstWire(pip)
        next_delay == NextDelay(r, px, qw, pip)
        next_qw == NextQW(next_wire, pip, next_delay, dst_wire)
    IN  IF WireSkipped(r, px, next_wire) THEN st
        ELSE IF PipSkipped(r, px, pip) THEN st
        ELSE IF NotImproved(st.visited, next_wire, next_delay) THEN st
        ELSE [st EXCEPT
                !.thisVisitCnt = @ + 1,
                !.revisitCnt =
                    IF next_wire \in DOMAIN st.visited /\ st.limit = 0 THEN @ + 1 ELSE @,
                !.overtimeRevisitCnt =
                    IF next_wire \in DOMAIN st.visited /\ st.limit # 0 THEN @ + 1 ELSE @,
                !.rng = Tail(@),
                !.qw_randtag = Head(st.rng),
                !.drawn = Put(@, next_wire, Head(st.rng)),
                !.visited = Put(@, next_wire, next_qw),
                !.queue = @ (+) SetToBag({next_qw})]

\* visited[next_wire] is given the popped record qw, not next_qw
ExaminePip_StoresPopped(st, r, px, qw, pip, dst_wire) ==
    LET next_wire == getPipDstWire(pip)
        next_delay == NextDelay(r, px, qw, pip)
        counted == [st EXCEPT !.thisVisitCnt = @ + 1]
        next_qw == NextQW(next_wire, pip, next_delay, dst_wire)
    IN  IF WireSkipped(r, px, next_wire) THEN counted
        ELSE IF PipSkipped(r, px, pip) THEN counted
        ELSE IF NotImproved(st.visited, next_wire, next_delay) THEN counted
        ELSE [counted EXCEPT
                !.revisitCnt =
                    IF next_wire \in DOMAIN st.visited /\ st.limit = 0 THEN @ + 1 ELSE @,
                !.overtimeRevisitCnt =
                    IF next_wire \in DOMAIN st.visited /\ st.limit # 0 THEN @ + 1 ELSE @,
                !.rng = Tail(@),
                !.qw_randtag = Head(st.rng),
                !.drawn = Put(@, next_wire, Head(st.rng)),
                !.visited = Put(@, next_wire, qw),
                !.queue = @ (+) SetToBag({next_qw})]

\* one pass of the for loop body (router1.cc:146-219) over pip, on
\* st = [visited, queue, thisVisitCnt, revisitCnt, overtimeRevisitCnt, limit,
\* rng, qw_randtag, drawn]: rng is the values the next calls of ctx->rng()
\* return, qw_randtag the randtag of the local qw, which router1.cc:215
\* assigns, and drawn the value drawn at the push of each wire in this pass
ExaminePip(st, r, px, qw, pip, dst_wire) ==
    LET next_wire == getPipDstWire(pip)
        next_delay == NextDelay(r, px, qw, pip)
        counted == [st EXCEPT !.thisVisitCnt = @ + 1]
        next_qw == NextQW(next_wire, pip, next_delay, dst_wire)
    IN  IF WireSkipped(r, px, next_wire) THEN counted
        ELSE IF PipSkipped(r, px, pip) THEN counted
        ELSE IF NotImproved(st.visited, next_wire, next_delay) THEN counted
        ELSE [counted EXCEPT
                !.revisitCnt =
                    IF next_wire \in DOMAIN st.visited /\ st.limit = 0 THEN @ + 1 ELSE @,
                !.overtimeRevisitCnt =
                    IF next_wire \in DOMAIN st.visited /\ st.limit # 0 THEN @ + 1 ELSE @,
                !.rng = Tail(@),
                !.qw_randtag = Head(st.rng),
                !.drawn = Put(@, next_wire, Head(st.rng)),
                !.visited = Put(@, next_wire, next_qw),
                !.queue = @ (+) SetToBag({next_qw})]

RECURSIVE ExaminePips(_, _, _, _, _, _)
ExaminePips(st, r, px, qw, pips, dst_wire) ==
    IF pips = <<>> THEN st
    ELSE CHOOSE out \in {ExaminePips(s, r, px, qw, Tail(pips), dst_wire) :
                            s \in {ExaminePip(st, r, px, qw, Head(pips), dst_wire)}} :
            TRUE

\* the limit is not looked at
SearchGoesOn_NoLimit(s) == s.queue # EmptyBag

\* the while condition of router1.cc:139
SearchGoesOn(s) ==
    /\ s.queue # EmptyBag
    /\ (s.thisVisitCntLimit = 0 \/ s.thisVisitCnt < s.thisVisitCntLimit)

\* router1.cc:143-144
VisitCntLimit(s, visited, dst_wire) ==
    IF s.thisVisitCntLimit = 0 /\ dst_wire \in DOMAIN visited
    THEN (s.thisVisitCnt * 3) \div 2
    ELSE s.thisVisitCntLimit

-----------------------------------------------------------------------------
(* State after construction                                                *)

\* RipupScoreboard (router1.cc:69-75), every counter zero
ZeroScores ==
    [wireScores |-> [w \in Wires |-> 0],
     pipScores |-> [p \in PipIds |-> 0],
     netWireScores |-> [k \in Nets \X Wires |-> 0],
     netPipScores |-> [k \in Nets \X PipIds |-> 0]]

\* struct Router (router1.cc:102-116) before a constructor runs, with the
\* locals of the net constructor: src_wires, users_array, dst_wire, cursor
IdleRouter ==
    [rpc |-> "idle", net_name |-> NoNet, ripup |-> FALSE, ripup_penalty |-> 0,
     scores |-> ZeroScores, rippedNets |-> {}, visited |-> EmptyMap,
     visitCnt |-> 0, revisitCnt |-> 0, overtimeRevisitCnt |-> 0,
     routedOkay |-> FALSE, maxDelay |-> 0, failedDest |-> NoWire,
     src_wires |-> EmptyMap, users_array |-> <<>>, dst_wire |-> NoWire,
     cursor |-> NoWire]

\* the locals of Router::route before the search (router1.cc:120, 136-137)
IdleSearch == [queue |-> EmptyBag, thisVisitCnt |-> 0, thisVisitCntLimit |-> 0]

\* nothing is bound: every net is unrouted when router1 is called
UnboundProxy ==
    [wire_to_net |-> [w \in Wires |-> NoNet],
     pip_to_net |-> [p \in PipIds |-> NoNet],
     wires |-> [n \in Nets |-> EmptyMap]]

\* no call of getActualRouteDelay was made: delay is the caller's variable
\* the result is written to (router1.cc:655), returned says the call is over
\* and value is what it returned, caller is where router1 stood at the call
NoCall ==
    [src_wire |-> NoWire, dst_wire |-> NoWire, delay |-> -1, returned |-> FALSE,
     value |-> FALSE, caller |-> "start"]

InitHist ==
    [everQueued |-> {}, bindConflict |-> FALSE,
     evictions |-> [w \in Wires |-> 0],
     netEvictions |-> [k \in Nets \X Wires |-> 0], evicted |-> {}, everEvicted |-> {},
     snapshot |-> {}, routedA |-> <<>>, routedB |-> <<>>, failedA |-> {},
     hardError |-> NoNet, examined |-> 0, pushed |-> 0, rev0 |-> 0, over0 |-> 0,
     drawn |-> EmptyMap, cutOff |-> FALSE]

Init ==
    /\ dev \in DOMAIN DeviceList
    /\ proxy = UnboundProxy
    /\ scores = ZeroScores
    /\ ripup_penalty = 0
    /\ netsQueue = {}
    /\ iterCnt = 0
    /\ ripupQueue = {}
    /\ netsArray = <<>>
    /\ ripupArray = <<>>
    /\ pc = "start"
    /\ result = "none"
    /\ router = IdleRouter
    /\ search = IdleSearch
    /\ actual = NoCall
    /\ hist = InitHist

\* a search begins: the revisit counters it starts from, and the rng()
\* values drawn for the source wires
SearchBegins(h, r, tags) ==
    [h EXCEPT !.examined = 0, !.pushed = 0, !.rev0 = r.revisitCnt,
              !.over0 = r.overtimeRevisitCnt, !.drawn = tags, !.cutOff = FALSE]

\* the wire of qw was popped: its downhill pips are examined, and the queue
\* went from before to after by the pop and the pushes
SearchSeen(h, qw, before, after) ==
    [h EXCEPT !.examined = @ + Len(getPipsDownhill(qw.wire)),
              !.pushed = @ + BagCardinality(after) + 1 - BagCardinality(before)]

\* the nets whose wires map lost a wire between binding states px and qx
Losers(px, qx, self) ==
    {n \in Nets \ {self} : DOMAIN px.wires[n] # DOMAIN qx.wires[n]}

-----------------------------------------------------------------------------
(* router1 (router1.cc:411-653)                                            *)

\* every net is queued, routed or not
UnroutedNets_All(px) == Nets

\* router1.cc:421-434: the nets with a driver and an empty wires map
UnroutedNets(px) == {n \in Nets : DOMAIN px.wires[n] = {}}

\* router1.cc:415-494
Start ==
    /\ pc = "start"
    /\ ripup_penalty' = getRipupDelayPenalty
    /\ scores' = ZeroScores
    /\ netsQueue' = UnroutedNets(proxy)
    /\ iterCnt' = 0
    /\ hist' = [InitHist EXCEPT !.everQueued = UnroutedNets(proxy)]
    /\ IF UnroutedNets(proxy) = {}
       THEN pc' = "done" /\ result' = "success"
       ELSE pc' = "loop" /\ result' = result
    /\ actual' = NoCall
    /\ UNCHANGED <<dev, proxy, ripupQueue, netsArray, ripupArray, router, search>>

\* router1.cc:496, 635-646: the while condition fails
LoopExit ==
    /\ pc = "loop"
    /\ netsQueue = {}
    /\ pc' = "done"
    /\ result' = "success"
    /\ UNCHANGED <<dev, actual, proxy, scores, ripup_penalty, netsQueue, iterCnt, ripupQueue,
                   netsArray, ripupArray, router, search, hist>>

\* the cap compared one iteration late
CapReached_Late(i) == i = MaxIter + 1

\* router1.cc:497
CapReached(i) == i = MaxIter

\* router1.cc:497-504
GiveUp ==
    /\ pc = "loop"
    /\ netsQueue # {}
    /\ CapReached(iterCnt)
    /\ pc' = "done"
    /\ result' = "failure"
    /\ UNCHANGED <<dev, actual, proxy, scores, ripup_penalty, netsQueue, iterCnt, ripupQueue,
                   netsArray, ripupArray, router, search, hist>>

\* router1.cc:506-521
IterBegin ==
    /\ pc = "loop"
    /\ netsQueue # {}
    /\ ~CapReached(iterCnt)
    /\ iterCnt' = iterCnt + 1
    /\ ripupQueue' = {}
    /\ \E order \in Orders(netsQueue) : netsArray' = order
    /\ netsQueue' = {}
    /\ ripupArray' = <<>>
    /\ pc' = "passA"
    /\ hist' = [hist EXCEPT !.snapshot = netsQueue, !.routedA = <<>>,
                            !.routedB = <<>>, !.failedA = {}, !.evicted = {}]
    /\ UNCHANGED <<dev, actual, proxy, scores, ripup_penalty, result, router, search>>

-----------------------------------------------------------------------------
(* Router::Router(net) (router1.cc:253-404)                                *)

\* the binding proxy refuses to bind a wire that is bound
BindWireAllowed(px, wire) == checkWireAvail(px, wire)

\* the binding proxy refuses to bind a pip that is bound or whose
\* destination wire is bound
BindPipAllowed(px, pip) ==
    checkPipAvail(px, pip) /\ checkWireAvail(px, getPipDstWire(pip))

\* router1.cc:253-299: the constructor up to the loop over the users; the
\* member scores is a copy of the scoreboard the constructor is given
RouterBegin(net, withRipup, penalty) ==
    LET src_wire == src_wire_of(net)
        ripped == ripup_net(proxy, net)
    IN  IF ~BindWireAllowed(ripped, src_wire)
        THEN /\ proxy' = ripped
             /\ router' = [IdleRouter EXCEPT !.net_name = net, !.ripup = withRipup,
                                             !.ripup_penalty = penalty, !.scores = scores]
             /\ pc' = "done"
             /\ result' = "assert"
             /\ hist' = [hist EXCEPT !.bindConflict = TRUE]
        ELSE /\ proxy' = bindWire(ripped, src_wire, net)
             /\ \E users \in Shuffles(D.nets[net].users) :
                    router' = [IdleRouter EXCEPT
                                  !.rpc = "sink", !.net_name = net, !.ripup = withRipup,
                                  !.ripup_penalty = penalty, !.scores = scores,
                                  !.src_wires = Put(EmptyMap, src_wire, 0),
                                  !.users_array = users]
             /\ pc' = pc
             /\ result' = result
             /\ hist' = hist

\* router1.cc:523-528
RouteNetA ==
    /\ pc = "passA"
    /\ router.rpc = "idle"
    /\ netsArray # <<>>
    /\ RouterBegin(Head(netsArray), FALSE, 0)
    /\ netsArray' = Tail(netsArray)
    /\ UNCHANGED <<dev, actual, scores, ripup_penalty, netsQueue, iterCnt, ripupQueue,
                   ripupArray, search>>

\* router1.cc:574-579
RouteNetB ==
    /\ pc = "passB"
    /\ router.rpc = "idle"
    /\ ripupArray # <<>>
    /\ RouterBegin(Head(ripupArray), TRUE, ripup_penalty)
    /\ ripupArray' = Tail(ripupArray)
    /\ UNCHANGED <<dev, actual, scores, ripup_penalty, netsQueue, iterCnt, ripupQueue,
                   netsArray, search>>

\* router1.cc:301-334 and 122-137: the next user, and the start of route()
RouteSink ==
    /\ router.rpc = "sink"
    /\ router.users_array # <<>>
    /\ LET dst_wire == Head(router.users_array)
       IN  \E tags \in [DOMAIN router.src_wires -> RngVals] :
            LET entries == SourceEntries(router.src_wires, dst_wire, tags)
            IN  /\ router' = [router EXCEPT !.rpc = "search",
                                            !.dst_wire = dst_wire,
                                            !.users_array = Tail(@),
                                            !.visited = entries]
                /\ search' = [queue |-> SetToBag(Range(entries)),
                              thisVisitCnt |-> 0, thisVisitCntLimit |-> 0]
                /\ hist' = SearchBegins(hist, router, tags)
    /\ UNCHANGED <<dev, actual, proxy, scores, ripup_penalty, netsQueue, iterCnt, ripupQueue,
                   netsArray, ripupArray, pc, result>>

\* router1.cc:139-220: the state of route() when qw has been popped
PassBegins(qw, rng) ==
    [visited |-> router.visited,
     queue |-> search.queue (-) SetToBag({qw}),
     thisVisitCnt |-> search.thisVisitCnt,
     revisitCnt |-> router.revisitCnt,
     overtimeRevisitCnt |-> router.overtimeRevisitCnt,
     limit |-> VisitCntLimit(search, router.visited, router.dst_wire),
     rng |-> rng, qw_randtag |-> qw.randtag, drawn |-> EmptyMap]

\* router1.cc:215: the number of calls of ctx->rng() in the pass that pops
\* qw, one per relaxation; the values drawn do not change which pips relax
RngCalls(qw) ==
    LET fanout == Len(getPipsDownhill(qw.wire))
        st0 == PassBegins(qw, [i \in 1..fanout |-> 0])
        st == ExaminePips(st0, router, proxy, qw, getPipsDownhill(qw.wire),
                          router.dst_wire)
    IN  fanout - Len(st.rng)

\* router1.cc:139-220: one pass of the while loop of route(), called by the
\* net constructor ("search") or by the probe constructor ("probe")
SearchStep ==
    /\ router.rpc \in {"search", "probe"}
    /\ SearchGoesOn(search)
    /\ \E qw \in Tops(search.queue) :
      \E rng \in [1..RngCalls(qw) -> RngVals] :
        LET st0 == PassBegins(qw, rng)
        IN  \E st \in {ExaminePips(st0, router, proxy, qw, getPipsDownhill(qw.wire),
                                   router.dst_wire)} :
            /\ router' = [router EXCEPT !.visited = st.visited,
                                        !.revisitCnt = st.revisitCnt,
                                        !.overtimeRevisitCnt = st.overtimeRevisitCnt]
            /\ search' = [queue |-> st.queue, thisVisitCnt |-> st.thisVisitCnt,
                          thisVisitCntLimit |-> st0.limit]
            /\ hist' = [SearchSeen(hist, qw, search.queue, st.queue)
                          EXCEPT !.drawn = st.drawn]
    /\ UNCHANGED <<dev, actual, proxy, scores, ripup_penalty, netsQueue, iterCnt, ripupQueue,
                   netsArray, ripupArray, pc, result>>

\* router1.cc:222 and 336-355: route() returns; the sink was reached or not
SearchDone ==
    /\ router.rpc = "search"
    /\ ~SearchGoesOn(search)
    /\ IF router.dst_wire \notin DOMAIN router.visited
       THEN /\ proxy' = ripup_net(proxy, router.net_name)
            /\ router' = [router EXCEPT !.rpc = "returned",
                                        !.visitCnt = @ + search.thisVisitCnt,
                                        !.failedDest = router.dst_wire]
            /\ hist' = [hist EXCEPT !.hardError = IF router.ripup
                                                  THEN router.net_name ELSE @]
       ELSE /\ proxy' = proxy
            /\ hist' = [hist EXCEPT !.cutOff = search.queue # EmptyBag]
            /\ router' = [router EXCEPT
                             !.rpc = "backtrace",
                             !.visitCnt = @ + search.thisVisitCnt,
                             !.maxDelay = Max(@, router.visited[router.dst_wire].delay),
                             !.cursor = router.dst_wire]
    /\ search' = IdleSearch
    /\ UNCHANGED <<dev, actual, scores, ripup_penalty, netsQueue, iterCnt, ripupQueue,
                   netsArray, ripupArray, pc, result>>

-----------------------------------------------------------------------------
(* The back-trace (router1.cc:355-400).  b = [px, scores, rippedNets,      *)
(* asserted] is the binding state, the scoreboard and rippedNets while one *)
(* pass of the loop runs; asserted says an NPNR_ASSERT failed.  The loop   *)
(* is in the body of the constructor, where the name scores is the         *)
(* constructor's parameter RipupScoreboard &scores (router1.cc:253), which *)
(* hides the member: the counters that grow are those of router1's         *)
(* scoreboard.  Router::route is a member function and reads the member    *)
(* scores, the copy made when the Router was constructed (router1.cc:254). *)

\* the counter of the evicted net is forgotten
WireScoresAfter_NoEvictee(sc, net_name, conflicting_wire_net, cursor) ==
    [sc EXCEPT
        !.wireScores[cursor] = @ + 1,
        !.netWireScores[<<net_name, cursor>>] = @ + 1]

\* router1.cc:375-377
WireScoresAfter(sc, net_name, conflicting_wire_net, cursor) ==
    [sc EXCEPT
        !.wireScores[cursor] = @ + 1,
        !.netWireScores =
            [k \in DOMAIN @ |->
                @[k] + (IF k = <<net_name, cursor>> THEN 1 ELSE 0)
                     + (IF k = <<conflicting_wire_net, cursor>> THEN 1 ELSE 0)]]

\* router1.cc:392-394
PipScoresAfter(sc, net_name, conflicting_pip_net, pip) ==
    [sc EXCEPT
        !.pipScores[pip] = @ + 1,
        !.netPipScores =
            [k \in DOMAIN @ |->
                @[k] + (IF k = <<net_name, pip>> THEN 1 ELSE 0)
                     + (IF k = <<conflicting_pip_net, pip>> THEN 1 ELSE 0)]]

\* the whole conflicting net is ripped up, whether or not the wire is free
\* after unbindWire
EvictWire_WholeNet(b, r, cursor) ==
    LET conflicting_wire_net == getConflictingWireNet(b.px, cursor)
    IN  IF conflicting_wire_net = NoNet THEN b
        ELSE IF ~r.ripup \/ conflicting_wire_net = r.net_name
        THEN [b EXCEPT !.asserted = TRUE]
        ELSE [b EXCEPT
                !.px = ripup_net(unbindWire(b.px, cursor), conflicting_wire_net),
                !.rippedNets = @ \cup {conflicting_wire_net},
                !.scores = WireScoresAfter(@, r.net_name, conflicting_wire_net, cursor)]

\* the conflicting net is not recorded in rippedNets
EvictWire_NotRecorded(b, r, cursor) ==
    LET conflicting_wire_net == getConflictingWireNet(b.px, cursor)
    IN  IF conflicting_wire_net = NoNet THEN b
        ELSE IF ~r.ripup \/ conflicting_wire_net = r.net_name
        THEN [b EXCEPT !.asserted = TRUE]
        ELSE [b EXCEPT
                !.px = unbindWire(b.px, cursor),
                !.scores = WireScoresAfter(@, r.net_name, conflicting_wire_net, cursor)]

\* router1.cc:364-378: the cursor wire is bound to a net
EvictWire(b, r, cursor) ==
    LET conflicting_wire_net == getConflictingWireNet(b.px, cursor)
        unbound == unbindWire(b.px, cursor)
    IN  IF conflicting_wire_net = NoNet THEN b
        ELSE IF ~r.ripup \/ conflicting_wire_net = r.net_name
        THEN [b EXCEPT !.asserted = TRUE]
        ELSE [b EXCEPT
                !.px = IF ~checkWireAvail(unbound, cursor)
                       THEN ripup_net(unbound, conflicting_wire_net)
                       ELSE unbound,
                !.rippedNets = @ \cup {conflicting_wire_net},
                !.scores = WireScoresAfter(@, r.net_name, conflicting_wire_net, cursor)]

\* router1.cc:380-395: the arriving pip is bound to a net
EvictPip(b, r, pip) ==
    LET conflicting_pip_net == getConflictingPipNet(b.px, pip)
        unbound == unbindPip(b.px, pip)
    IN  IF conflicting_pip_net = NoNet THEN b
        ELSE IF ~r.ripup \/ conflicting_pip_net = r.net_name
        THEN [b EXCEPT !.asserted = TRUE]
        ELSE [b EXCEPT
                !.px = IF ~checkPipAvail(unbound, pip)
                       THEN ripup_net(unbound, conflicting_pip_net)
                       ELSE unbound,
                !.rippedNets = @ \cup {conflicting_pip_net},
                !.scores = PipScoresAfter(@, r.net_name, conflicting_pip_net, pip)]

\* the evictions the binding states show: the wire was another net's before
\* the step and is not that net's after it
EvictionsSeen(h, px, qx, self, wire) ==
    [h EXCEPT
        !.evicted = @ \cup Losers(px, qx, self),
        !.everEvicted = @ \cup Losers(px, qx, self),
        !.evictions[wire] =
            IF px.wire_to_net[wire] \notin {NoNet, self}
               /\ wire \notin DOMAIN qx.wires[px.wire_to_net[wire]]
            THEN @ + 1 ELSE @,
        !.netEvictions =
            [k \in DOMAIN @ |->
                IF px.wire_to_net[wire] \notin {NoNet, self}
                   /\ wire \notin DOMAIN qx.wires[px.wire_to_net[wire]]
                   /\ k \in {<<self, wire>>, <<px.wire_to_net[wire], wire>>}
                THEN @[k] + 1 ELSE @[k]]]

\* the cursor wire is not entered in src_wires
SrcWiresAfter_Forgotten(src_wires, visited, cursor) == src_wires

\* router1.cc:397: the cursor wire enters src_wires with its visited delay
SrcWiresAfter(src_wires, visited, cursor) ==
    Put(src_wires, cursor, visited[cursor].delay)

\* router1.cc:357-399: one pass of the loop, the cursor is not a source wire
BacktraceStep ==
    /\ router.rpc = "backtrace"
    /\ router.cursor \notin DOMAIN router.src_wires
    /\ LET cursor == router.cursor
           b0 == [px |-> proxy, scores |-> scores,
                  rippedNets |-> router.rippedNets, asserted |-> FALSE]
           b1 == EvictWire(b0, router, cursor)
           known == cursor \in DOMAIN router.visited
                    /\ router.visited[cursor].pip # NoPip
           pip == router.visited[cursor].pip
           b2 == EvictPip(b1, router, pip)
       IN  IF b1.asserted
           THEN /\ pc' = "done" /\ result' = "assert"
                /\ UNCHANGED <<proxy, scores, router, hist>>
           ELSE IF ~known
           THEN /\ pc' = "done" /\ result' = "undefined"
                /\ proxy' = b1.px
                /\ scores' = b1.scores
                /\ hist' = EvictionsSeen(hist, proxy, b1.px, router.net_name, cursor)
                /\ router' = [router EXCEPT !.rippedNets = b1.rippedNets]
           ELSE IF b2.asserted
           THEN /\ pc' = "done" /\ result' = "assert"
                /\ proxy' = b1.px
                /\ scores' = b1.scores
                /\ hist' = EvictionsSeen(hist, proxy, b1.px, router.net_name, cursor)
                /\ router' = [router EXCEPT !.rippedNets = b1.rippedNets]
           ELSE IF ~BindPipAllowed(b2.px, pip)
           THEN /\ pc' = "done" /\ result' = "assert"
                /\ proxy' = b2.px
                /\ scores' = b2.scores
                /\ hist' = [EvictionsSeen(hist, proxy, b2.px, router.net_name, cursor)
                               EXCEPT !.bindConflict = TRUE]
                /\ router' = [router EXCEPT !.rippedNets = b2.rippedNets]
           ELSE /\ pc' = pc /\ result' = result
                /\ proxy' = bindPip(b2.px, pip, router.net_name)
                /\ scores' = b2.scores
                /\ hist' = EvictionsSeen(hist, proxy, b2.px, router.net_name, cursor)
                /\ router' = [router EXCEPT
                                 !.rippedNets = b2.rippedNets,
                                 !.src_wires = SrcWiresAfter(@, router.visited, cursor),
                                 !.cursor = getPipSrcWire(pip)]
    /\ UNCHANGED <<dev, actual, ripup_penalty, netsQueue, iterCnt, ripupQueue,
                   netsArray, ripupArray, search>>

\* router1.cc:361-362: the cursor is a source wire, the sink is connected
BacktraceDone ==
    /\ router.rpc = "backtrace"
    /\ router.cursor \in DOMAIN router.src_wires
    /\ router' = [router EXCEPT !.rpc = "sink"]
    /\ UNCHANGED <<dev, actual, proxy, scores, ripup_penalty, netsQueue, iterCnt, ripupQueue,
                   netsArray, ripupArray, pc, result, search, hist>>

\* router1.cc:401-404: every user is connected
RouterDone ==
    /\ router.rpc = "sink"
    /\ router.users_array = <<>>
    /\ router' = [router EXCEPT !.rpc = "returned", !.routedOkay = TRUE]
    /\ UNCHANGED <<dev, actual, proxy, scores, ripup_penalty, netsQueue, iterCnt, ripupQueue,
                   netsArray, ripupArray, pc, result, search, hist>>

-----------------------------------------------------------------------------
(* Router::Router(src_wire, dst_wire) (router1.cc:225-251) and             *)
(* Context::getActualRouteDelay (router1.cc:655-662)                       *)

\* the probe rips up by default
ProbeRipup_On == TRUE

\* router1.cc:225: the default argument bool ripup = false
ProbeRipup == FALSE

\* getActualRouteDelay is called once before router1 runs, or after it
\* returned (router1.cc:657-658, 225-233, 122-137): the Router gets a fresh
\* scoreboard, no net name, ripup_penalty 0, and starts route() from src_wire
ProbeBegin ==
    /\ \/ pc = "start" /\ ~actual.returned
       \/ pc = "done" /\ result \in {"success", "failure"}
    /\ \E src_wire \in Wires, dst_wire \in Wires, tag \in RngVals :
        LET src_wires == Put(EmptyMap, src_wire, 0)
            entries == SourceEntries(src_wires, dst_wire, Put(EmptyMap, src_wire, tag))
        IN  /\ router' = [IdleRouter EXCEPT !.rpc = "probe", !.ripup = ProbeRipup,
                                            !.scores = ZeroScores,
                                            !.src_wires = src_wires,
                                            !.dst_wire = dst_wire,
                                            !.visited = entries]
            /\ search' = [queue |-> SetToBag(Range(entries)),
                          thisVisitCnt |-> 0, thisVisitCntLimit |-> 0]
            /\ actual' = [NoCall EXCEPT !.src_wire = src_wire, !.dst_wire = dst_wire,
                                        !.delay = actual.delay, !.caller = pc]
            /\ hist' = SearchBegins(hist, IdleRouter, Put(EmptyMap, src_wire, tag))
    /\ pc' = "probe"
    /\ UNCHANGED <<dev, proxy, scores, ripup_penalty, netsQueue, iterCnt, ripupQueue,
                   netsArray, ripupArray, result>>

\* router1.cc:222, 234 and 659-661: route() returns, routedOkay is set, the
\* delay is written if the destination was reached, and the call returns
ProbeDone ==
    /\ pc = "probe"
    /\ router.rpc = "probe"
    /\ ~SearchGoesOn(search)
    /\ LET routedOkay == router.dst_wire \in DOMAIN router.visited
       IN  actual' = [actual EXCEPT
                         !.returned = TRUE,
                         !.value = routedOkay,
                         !.delay = IF routedOkay
                                   THEN router.visited[router.dst_wire].delay ELSE @]
    /\ pc' = actual.caller
    /\ router' = IdleRouter
    /\ search' = IdleSearch
    /\ UNCHANGED <<dev, proxy, scores, ripup_penalty, netsQueue, iterCnt, ripupQueue,
                   netsArray, ripupArray, result, hist>>

\* router1 is called again on the design it has routed
CallAgain ==
    /\ pc = "done"
    /\ result = "success"
    /\ pc' = "start"
    /\ result' = "none"
    /\ UNCHANGED <<dev, actual, proxy, scores, ripup_penalty, netsQueue, iterCnt,
                   ripupQueue, netsArray, ripupArray, router, search, hist>>

-----------------------------------------------------------------------------
(* router1, after a Router returned                                        *)

\* every net goes to ripupQueue, routed or not
RipupQueueAfter_Always(queue, r) == queue \cup {r.net_name}

\* the test of routedOkay is inverted
RipupQueueAfter_Inverted(queue, r) ==
    IF r.routedOkay THEN queue \cup {r.net_name} ELSE queue

\* router1.cc:535-539
RipupQueueAfter(queue, r) ==
    IF ~r.routedOkay THEN queue \cup {r.net_name} ELSE queue

\* router1.cc:530-539
ReturnA ==
    /\ pc = "passA"
    /\ router.rpc = "returned"
    /\ ripupQueue' = RipupQueueAfter(ripupQueue, router)
    /\ router' = IdleRouter
    /\ hist' = [hist EXCEPT !.routedA = Append(@, router.net_name),
                            !.failedA = IF ~router.routedOkay
                                        THEN @ \cup {router.net_name} ELSE @]
    /\ UNCHANGED <<dev, actual, proxy, scores, ripup_penalty, netsQueue, iterCnt, netsArray,
                   ripupArray, pc, result, search>>

\* router1.cc:557-572: Pass A is over
PassAEnd ==
    /\ pc = "passA"
    /\ router.rpc = "idle"
    /\ netsArray = <<>>
    /\ IF ripupQueue # {}
       THEN /\ \E order \in Orders(ripupQueue) : ripupArray' = order
            /\ pc' = "passB"
       ELSE /\ ripupArray' = ripupArray
            /\ pc' = "iterEnd"
    /\ UNCHANGED <<dev, actual, proxy, scores, ripup_penalty, netsQueue, iterCnt, ripupQueue,
                   netsArray, result, router, search, hist>>

\* the failure of a rip-up routing is not noticed
HardError_Ignored(r) == FALSE

\* router1.cc:586-587: the net is impossible to route
HardError(r) == ~r.routedOkay

\* the ripped nets are not put back into netsQueue
RequeueRipped_Dropped(queue, ripped) == queue

\* router1.cc:589-590
RequeueRipped(queue, ripped) == queue \cup ripped

\* router1.cc:581-590 and 647-652: log_error throws, router1 returns false
ReturnB ==
    /\ pc = "passB"
    /\ router.rpc = "returned"
    /\ IF HardError(router)
       THEN /\ pc' = "done"
            /\ result' = "failure"
            /\ netsQueue' = netsQueue
       ELSE /\ pc' = pc
            /\ result' = result
            /\ netsQueue' = RequeueRipped(netsQueue, router.rippedNets)
    /\ hist' = [hist EXCEPT !.routedB = Append(@, router.net_name),
                            !.everQueued = @ \cup netsQueue']
    /\ router' = IdleRouter
    /\ UNCHANGED <<dev, actual, proxy, scores, ripup_penalty, iterCnt, ripupQueue, netsArray,
                   ripupArray, search>>

\* router1.cc:606-620: Pass B is over
PassBEnd ==
    /\ pc = "passB"
    /\ router.rpc = "idle"
    /\ ripupArray = <<>>
    /\ pc' = "iterEnd"
    /\ UNCHANGED <<dev, actual, proxy, scores, ripup_penalty, netsQueue, iterCnt, ripupQueue,
                   netsArray, ripupArray, result, router, search, hist>>

\* the penalty grows every eighth iteration
PenaltyBoundary_Every8(i) == i % 8 = 0

\* router1.cc:631
PenaltyBoundary(i) == i = 8 \/ i = 16 \/ i = 32 \/ i = 64 \/ i = 128

\* router1.cc:622-633: the end of the loop body
IterEnd ==
    /\ pc = "iterEnd"
    /\ ripup_penalty' = IF PenaltyBoundary(iterCnt)
                        THEN ripup_penalty + getRipupDelayPenalty
                        ELSE ripup_penalty
    /\ pc' = "loop"
    /\ UNCHANGED <<dev, actual, proxy, scores, netsQueue, iterCnt, ripupQueue, netsArray,
                   ripupArray, result, router, search, hist>>

\* the steps of one call of router1
Router1Next ==
    \/ Start
    \/ LoopExit
    \/ GiveUp
    \/ IterBegin
    \/ RouteNetA
    \/ RouteNetB
    \/ RouteSink
    \/ SearchStep
    \/ SearchDone
    \/ BacktraceStep
    \/ BacktraceDone
    \/ RouterDone
    \/ ReturnA
    \/ PassAEnd
    \/ ReturnB
    \/ PassBEnd
    \/ IterEnd

\* router1, and its caller: getActualRouteDelay, and router1 once more
Next ==
    \/ Router1Next
    \/ ProbeBegin
    \/ ProbeDone
    \/ CallAgain

Spec == Init /\ [][Next]_vars

\* one call of router1, a sequential procedure: a step that can be taken is
\* taken
FairSpec == Init /\ [][Router1Next]_vars /\ WF_vars(Router1Next)

-----------------------------------------------------------------------------
(* Claims                                                                  *)

\* the net owns no wire and no pip
OwnsNothing(net) ==
    /\ DOMAIN proxy.wires[net] = {}
    /\ \A w \in Wires : proxy.wire_to_net[w] # net
    /\ \A p \in PipIds : proxy.pip_to_net[p] # net

\* walking back from wire over the pips bound to net reaches the net's
\* driver wire within fuel steps
RECURSIVE ReachesDriver(_, _, _)
ReachesDriver(net, wire, fuel) ==
    IF wire = src_wire_of(net)
    THEN proxy.wire_to_net[wire] = net
    ELSE /\ fuel > 0
         /\ wire \in DOMAIN proxy.wires[net]
         /\ proxy.wire_to_net[wire] = net
         /\ LET pip == proxy.wires[net][wire]
            IN  /\ pip # NoPip
                /\ proxy.pip_to_net[pip] = net
                /\ getPipDstWire(pip) = wire
                /\ ReachesDriver(net, getPipSrcWire(pip), fuel - 1)

SinksConnected(net) ==
    \A i \in DOMAIN D.nets[net].users :
        ReachesDriver(net, D.nets[net].users[i], D.nwires)

\* C1: every bindWire and bindPip the router issues targets a resource that
\* is not bound to another net, so no wire and no pip gets two owners.
C1_BindsOnlyFreeResources == ~hist.bindConflict

\* C2: when router1 returns success, every sink wire of every net that was
\* ever in netsQueue is reached from the net's driver wire by walking back
\* over pips bound to that net.
C2_SuccessConnectsEverySink ==
    result = "success" => \A n \in hist.everQueued : SinksConnected(n)

\* a successful run in which a net was evicted and routed again
C2_Witness == result = "success" /\ hist.everEvicted # {}

\* C3: when the path search of the Net Router does not reach a sink, the
\* Router returns with routedOkay = false, failedDest the wire of that sink,
\* and its net owning no wire and no pip.
C3_FailureLeavesNetUnbound ==
    [][(/\ router.rpc = "search"
        /\ ~SearchGoesOn(search)
        /\ router.dst_wire \notin DOMAIN router.visited)
       => (/\ router'.rpc = "returned"
           /\ ~router'.routedOkay
           /\ router'.failedDest = router.dst_wire
           /\ OwnsNothing(router.net_name)')]_vars

\* a rip-up routing that failed after an earlier sink had been connected
C3_Witness ==
    /\ router.rpc = "returned"
    /\ ~router.routedOkay
    /\ router.ripup
    /\ router.failedDest # NoWire
    /\ Cardinality(DOMAIN router.src_wires) > 1

\* C4: router1 terminates after at most 200 iterations: success when
\* netsQueue is empty at the loop head, failure when it is not empty after
\* 200 iterations, and no 201st iteration.
C4_TerminatesWithinCap ==
    /\ <>(pc = "done")
    /\ [](iterCnt <= 200)
    /\ [][pc = "loop" /\ netsQueue = {} => pc' = "done" /\ result' = "success"]_vars
    /\ [][pc = "loop" /\ netsQueue # {} /\ iterCnt = 200
            => pc' = "done" /\ result' = "failure"]_vars
    /\ [][pc = "loop" /\ netsQueue # {} /\ iterCnt < 200 => pc' = "passA"]_vars

\* the run that gave up after 200 iterations
C4_Witness == result = "failure" /\ iterCnt = 200 /\ netsQueue # {}

\* C5: the scoreboard of the invocation counts the evictions: wireScores[W]
\* is the number of evictions from wire W so far, netWireScores[(N,W)] the
\* number of those in which N was the evicting or the evicted net; and a
\* Net Router that has not evicted anything itself reads, in its search,
\* exactly these counters as grown by the nets routed before it.
C5_ScoreboardCountsEvictions ==
    /\ \A w \in Wires : scores.wireScores[w] = hist.evictions[w]
    /\ \A k \in Nets \X Wires : scores.netWireScores[k] = hist.netEvictions[k]
    /\ router.rpc \in {"sink", "search", "backtrace"} /\ router.rippedNets = {}
          => router.scores = scores

\* a rip-up search runs over a wire another net holds, with a counter an
\* earlier Net Router has grown
C5_Witness ==
    /\ router.rpc = "search" /\ router.ripup
    /\ \E w \in Wires :
          /\ ~checkWireAvail(proxy, w)
          /\ getConflictingWireNet(proxy, w) \notin {NoNet, router.net_name}
          /\ router.scores.wireScores[w] > 0
          /\ router.scores.netWireScores[<<getConflictingWireNet(proxy, w), w>>] > 0
          /\ router.scores.wireScores[w] = hist.evictions[w]


\* C6 as stated: when the Net Router returns, every net recorded in
\* rippedNets owns no wire and no pip.
C6_RippedNetsOwnNothing ==
    router.rpc = "returned" => \A c \in router.rippedNets : OwnsNothing(c)

\* C6, amended: in a back-trace of net N, a cursor wire owned by another net
\* C is unbound from C before N's pip is bound there, C is recorded in
\* rippedNets, and C keeps its other wires (the wire is free after the
\* unbind); when the Net Router returns, no net of rippedNets owns a wire of N.
C6_OnlyContestedWireUnbound ==
    /\ [](router.rpc = "returned" =>
            \A c \in router.rippedNets :
                /\ c # router.net_name
                /\ DOMAIN proxy.wires[c] \cap DOMAIN proxy.wires[router.net_name] = {})
    /\ [][(/\ router.rpc = "backtrace"
           /\ router.cursor \notin DOMAIN router.src_wires
           /\ proxy.wire_to_net[router.cursor] \notin {NoNet, router.net_name})
          => (/\ pc' = pc
              /\ proxy'.wire_to_net[router.cursor] = router.net_name
              /\ router.cursor \in DOMAIN proxy'.wires[router.net_name]
              /\ proxy.wire_to_net[router.cursor] \in router'.rippedNets
              /\ DOMAIN proxy'.wires[proxy.wire_to_net[router.cursor]]
                    = DOMAIN proxy.wires[proxy.wire_to_net[router.cursor]]
                        \ {router.cursor})]_vars

\* a Router returned and a net it ripped still owns a wire
C6_Witness ==
    /\ router.rpc = "returned"
    /\ router.routedOkay
    /\ \E c \in router.rippedNets : DOMAIN proxy.wires[c] # {}

\* C7: a net that loses a wire or pip to a rip-up routing of Pass B is in
\* netsQueue when the iteration ends and in the snapshot of the next
\* iteration, and router1 does not return success while an evicted net has
\* an unconnected sink.
C7_EvictedNetsRequeued ==
    /\ [](pc = "iterEnd" => hist.evicted \subseteq netsQueue)
    /\ [][pc = "loop" /\ pc' = "passA" => hist.evicted \subseteq Range(netsArray')]_vars
    /\ [](result = "success" => \A n \in hist.everEvicted : SinksConnected(n))

\* an iteration ends after a net was evicted in its Pass B
C7_Witness == pc = "iterEnd" /\ hist.evicted # {}

NoDuplicates(s) == Cardinality(Range(s)) = Len(s)

\* C8: in one iteration every net of the snapshot is routed once without
\* rip-up, then exactly the nets that failed are routed once with rip-up;
\* Pass B starts after Pass A is over for the whole snapshot and is over
\* when the iteration ends.
C8_TwoPasses ==
    /\ NoDuplicates(hist.routedA)
    /\ NoDuplicates(hist.routedB)
    /\ Range(hist.routedA) \subseteq hist.snapshot
    /\ hist.failedA \subseteq Range(hist.routedA)
    /\ Range(hist.routedB) \subseteq hist.failedA
    /\ (pc = "passA" /\ router.rpc # "idle") =>
            /\ ~router.ripup
            /\ router.net_name \in hist.snapshot \ Range(hist.routedA)
            /\ hist.routedB = <<>>
    /\ pc = "passB" => Range(hist.routedA) = hist.snapshot
    /\ (pc = "passB" /\ router.rpc # "idle") =>
            /\ router.ripup
            /\ router.net_name \in hist.failedA \ Range(hist.routedB)
    /\ pc \in {"iterEnd", "loop"} =>
            /\ Range(hist.routedA) = hist.snapshot
            /\ Range(hist.routedB) = hist.failedA

\* an iteration ends in which one net was routed in Pass A and another in Pass B
C8_Witness ==
    /\ pc = "iterEnd"
    /\ hist.failedA # {}
    /\ hist.failedA # hist.snapshot

\* C9: when a rip-up routing fails, the net is fully unbound and router1
\* returns failure at once: no other net is routed and no binding changes
\* (after the return only getActualRouteDelay runs, which binds nothing).
C9_HardErrorStopsRouter ==
    /\ [](hist.hardError # NoNet =>
            /\ OwnsNothing(hist.hardError)
            /\ \/ pc = "passB" /\ router.rpc = "returned" /\ ~router.routedOkay
               \/ pc = "done" /\ result = "failure" /\ router.rpc = "idle"
               \/ pc = "probe" /\ result = "failure" /\ router.rpc = "probe")
    /\ [][hist.hardError # NoNet =>
            /\ pc' \in {"done", "probe"}
            /\ result' = "failure"
            /\ proxy' = proxy
            /\ netsQueue' = netsQueue
            /\ ripupArray' = ripupArray]_vars

\* router1 returned failure and left nets of ripupArray unrouted
C9_Witness ==
    /\ hist.hardError # NoNet
    /\ pc = "done"
    /\ ripupArray # <<>>

\* the penalty of Pass B of iteration k
PenaltyOfIteration(k) ==
    getRipupDelayPenalty * (1 + Cardinality({b \in {8, 16, 32, 64, 128} : b < k}))

\* C10: Pass B of iteration k uses base * (1 + the number of boundaries
\* 8, 16, 32, 64, 128 below k); the penalty never decreases and never
\* exceeds 6 * base.
C10_PenaltySchedule ==
    /\ [](pc = "passB" => ripup_penalty = PenaltyOfIteration(iterCnt))
    /\ []((pc = "passB" /\ router.rpc # "idle") =>
            router.ripup_penalty = PenaltyOfIteration(iterCnt))
    /\ [](ripup_penalty <= 6 * getRipupDelayPenalty)
    /\ [][ripup_penalty' >= ripup_penalty]_vars

\* a rip-up routing after the last boundary, with six times the base penalty
C10_Witness ==
    /\ pc = "passB"
    /\ router.rpc = "search"
    /\ iterCnt > 128
    /\ router.ripup_penalty = 6 * getRipupDelayPenalty
    /\ getRipupDelayPenalty > 0

\* C11: when router1 is called and every net has a non-empty wires map, it
\* returns success in that step: no Router is constructed, no path search
\* runs, and the binding state is the one before the call.
C11_RoutedDesignIsNoOp ==
    [][(/\ pc = "start"
        /\ \A n \in Nets : DOMAIN proxy.wires[n] # {}
        /\ pc' # "probe")
       => (/\ pc' = "done"
           /\ result' = "success"
           /\ proxy' = proxy
           /\ router' = router
           /\ search' = search)]_vars

\* router1 has returned from a call on a design that was already routed
C11_Witness ==
    /\ pc = "done"
    /\ result = "success"
    /\ hist.everQueued = {}
    /\ \A n \in Nets : DOMAIN proxy.wires[n] # {} /\ SinksConnected(n)

\* the wires reached from the wires S over available pips into available
\* wires, in binding state px
RECURSIVE AvailClosure(_, _)
AvailClosure(px, S) ==
    LET T == S \cup {getPipDstWire(p) :
                        p \in {q \in PipIds : /\ getPipSrcWire(q) \in S
                                              /\ checkPipAvail(px, q)
                                              /\ checkWireAvail(px, getPipDstWire(q))}}
    IN  IF T = S THEN S ELSE AvailClosure(px, T)

\* C12: getActualRouteDelay changes no binding; it returns true exactly
\* when dst_wire is reached from src_wire over available pips and wires,
\* and only then writes the delay, the one stored for dst_wire.
C12_ActualRouteDelay ==
    /\ [][(pc = "probe" \/ pc' = "probe") => proxy' = proxy]_vars
    /\ [][(pc = "probe" /\ pc' # "probe")
           => (/\ actual'.returned
               /\ actual'.value
                    = (actual.dst_wire \in AvailClosure(proxy, {actual.src_wire}))
               /\ actual'.value
                    => actual'.delay = router.visited[actual.dst_wire].delay
               /\ ~actual'.value => actual'.delay = actual.delay)]_vars

\* the call returned false, after router1, for a destination that pips lead
\* to from the source, and has not written the delay
C12_Witness ==
    /\ pc = "done"
    /\ actual.returned
    /\ ~actual.value
    /\ actual.delay = -1
    /\ actual.dst_wire \in AvailClosure(UnboundProxy, {actual.src_wire})

\* the revisits, the overtime revisits and the wires first inserted into
\* visited by a relaxation, counted for the search that runs
RelaxationsCounted ==
    (router.revisitCnt - hist.rev0) + (router.overtimeRevisitCnt - hist.over0)
    + (Cardinality(DOMAIN router.visited) - Cardinality(DOMAIN router.src_wires))

\* C13 as stated: when a path search ends, the count it adds to visitCnt is
\* its revisits plus its overtime revisits plus the wires it newly inserted.
C13_VisitCntIsRelaxations ==
    (router.rpc \in {"search", "probe"} /\ ~SearchGoesOn(search))
        => search.thisVisitCnt = RelaxationsCounted

\* C13, amended: thisVisitCnt is the number of pips examined, skipped or not;
\* revisits plus overtime revisits plus newly inserted wires is the number
\* of relaxations; the two differ by the number of examined pips skipped.
C13_VisitCntIsExaminedPips ==
    router.rpc \in {"search", "probe"} =>
        /\ search.thisVisitCnt = hist.examined
        /\ RelaxationsCounted = hist.pushed
        /\ search.thisVisitCnt - RelaxationsCounted = hist.examined - hist.pushed
        /\ hist.pushed <= hist.examined

\* a search of the Net Router ends in which pips were skipped, a wire was
\* revisited and a wire was revisited in overtime
C13_Witness ==
    /\ router.rpc = "search"
    /\ ~SearchGoesOn(search)
    /\ hist.pushed < hist.examined
    /\ router.revisitCnt > hist.rev0
    /\ router.overtimeRevisitCnt > hist.over0

\* Bellman-Ford: d[w] is the least cost known to arrive at w, 1000 if none;
\* cost(p, c) is the cost of arriving over pip p from a wire reached at cost
\* c, usable(p) says the pip may be taken; at most n more rounds are made
RECURSIVE LeastCosts(_, _, _, _)
LeastCosts(d, cost(_, _), usable(_), n) ==
    IF n = 0 THEN d
    ELSE LET arrivals(w) ==
                 {d[w]} \cup {cost(p, d[getPipSrcWire(p)]) :
                                p \in {q \in PipIds : /\ getPipDstWire(q) = w
                                                      /\ usable(q)
                                                      /\ d[getPipSrcWire(q)] < 1000}}
             e == [w \in Wires |->
                     CHOOSE x \in arrivals(w) : \A y \in arrivals(w) : x <= y]
         IN  IF e = d THEN d ELSE LeastCosts(e, cost, usable, n - 1)

\* the least sum of pip delays of a path from wire a to each wire
PipDelayFrom(a) ==
    LET cost(p, c) == c + avgDelay(p)
        usable(p) == TRUE
    IN  LeastCosts([w \in Wires |-> IF w = a THEN 0 ELSE 1000], cost, usable, D.nwires)

\* estimateDelay never overestimates the least delay of a path
Admissible ==
    \A a \in Wires, b \in Wires :
        PipDelayFrom(a)[b] < 1000 => estimateDelay(a, b) <= PipDelayFrom(a)[b]

\* the least cost route() can compute for each wire in the search that runs:
\* from the source wires, over the pips it does not skip for unavailability
LeastArrival ==
    LET cost(p, c) == NextDelay(router, proxy, [delay |-> c], p)
        usable(p) == /\ ~WireSkipped(router, proxy, getPipDstWire(p))
                     /\ ~PipSkipped(router, proxy, p)
    IN  LeastCosts([w \in Wires |-> IF w \in DOMAIN router.src_wires
                                    THEN router.src_wires[w] ELSE 1000],
                   cost, usable, D.nwires)

\* the edge examinations a limit of l > 0 allows beyond those made when it
\* was set: l = (c * 3) / 2 for the count c at that moment
Budget(l) == l - (CHOOSE c \in 0..l : (c * 3) \div 2 = l)

\* a pass of the search loop made after the destination was reached
OvertimePass ==
    /\ router.rpc \in {"search", "probe"}
    /\ router'.rpc = router.rpc
    /\ search'.thisVisitCntLimit # 0
    /\ router.dst_wire \in DOMAIN router.visited

\* C14 as stated: with an estimateDelay that never overestimates, no pass of
\* the search made after the destination was reached lowers
\* visited[dst].delay by more than epsilon times the budget.
C14_OvertimeGainBounded ==
    [][(OvertimePass
        /\ router.visited[router.dst_wire].delay - router'.visited[router.dst_wire].delay
             > getDelayEpsilon * Budget(search'.thisVisitCntLimit))
       => ~Admissible]_vars

\* C14, amended: a pass made after the destination was reached leaves
\* visited[dst].delay or lowers it by more than epsilon, by an amount the
\* budget does not bound; the delay is never below the least arrival cost
\* of the destination.
C14_OvertimeGainAboveEpsilon ==
    /\ [][OvertimePass
           => \/ router'.visited[router.dst_wire].delay
                    = router.visited[router.dst_wire].delay
              \/ router'.visited[router.dst_wire].delay
                    < router.visited[router.dst_wire].delay - getDelayEpsilon]_vars
    /\ []((router.rpc \in {"search", "probe"}
            /\ router.dst_wire \in DOMAIN router.visited)
           => router.visited[router.dst_wire].delay >= LeastArrival[router.dst_wire])

\* on a device with an estimateDelay that never overestimates, the
\* destination was reached at a delay, and overtime passes have lowered the
\* delay to the least arrival cost, by more than epsilon times the budget
C14_Witness ==
    /\ router.rpc = "search"
    /\ search.thisVisitCntLimit # 0
    /\ router.overtimeRevisitCnt > hist.over0
    /\ router.dst_wire \in DOMAIN router.visited
    /\ getDelayEpsilon * Budget(search.thisVisitCntLimit) < 6
    /\ router.visited[router.dst_wire].delay = LeastArrival[router.dst_wire]
    /\ Admissible

\* the device of two nets that both need the one pip 3->4
OnBottleneck == D = DevBottleneck

\* Pass A of the first iteration is over: it has routed the first net of its
\* order and failed the second
FirstPassA ==
    (iterCnt = 1 /\ pc = "passB") =>
        /\ Len(hist.routedA) = 2
        /\ hist.failedA = {hist.routedA[2]}
        /\ SinksConnected(hist.routedA[1]) \/ hist.routedA[1] \in hist.evicted

\* C15 as stated: on the bottleneck device Pass A of the first iteration
\* routes the first net and fails the second, and router1 ends in failure
\* with the hard error of a rip-up routing raised.
C15_BottleneckHardError ==
    OnBottleneck =>
        /\ FirstPassA
        /\ pc = "done" => (result = "failure" /\ hist.hardError # NoNet)

\* C15, amended: on the bottleneck device Pass A of the first iteration
\* routes the first net and fails the second; in every iteration Pass B
\* routes the one net Pass A failed by evicting the other net, which is
\* queued again; no hard error is raised, and router1 ends in failure at
\* the cap of 200 iterations.
C15_BottleneckEndsAtCap ==
    OnBottleneck =>
        /\ FirstPassA
        /\ hist.hardError = NoNet
        /\ pc = "iterEnd" =>
                /\ Cardinality(hist.failedA) = 1
                /\ netsQueue = Nets \ hist.failedA
                /\ \A n \in hist.failedA : SinksConnected(n)
                /\ \A n \in netsQueue : ~SinksConnected(n)
        /\ pc = "done" => (result = "failure" /\ iterCnt = 200 /\ netsQueue # {})

\* router1 has given up on the bottleneck device
C15_Witness ==
    /\ OnBottleneck
    /\ pc = "done"
    /\ result = "failure"
    /\ iterCnt = 200
    /\ hist.hardError = NoNet
    /\ \E n \in Nets : SinksConnected(n)

\* the net a step of Pass A routes
PassANet == IF router.rpc = "idle" THEN router'.net_name ELSE router.net_name

\* C16: with rip-up disabled every wire the search enters into visited over
\* a pip is available, and so is the pip; a routing of Pass A fires no
\* assertion of the back-trace, leaves rippedNets empty and the scoreboard
\* as it is, and changes no wire and no pip of another net.
C16_PassAOnlyFreeResources ==
    /\ []((router.rpc \in {"search", "probe"} /\ ~router.ripup) =>
            \A w \in DOMAIN router.visited :
                router.visited[w].pip # NoPip =>
                    /\ checkWireAvail(proxy, w)
                    /\ checkPipAvail(proxy, router.visited[w].pip)
                    /\ getPipSrcWire(router.visited[w].pip) \in DOMAIN router.visited)
    /\ [](pc = "passA" => router.rippedNets = {})
    /\ [][pc = "passA" =>
            /\ result' \in {"assert", "undefined"} => hist'.bindConflict
            /\ scores' = scores
            /\ \A n \in Nets \ {PassANet} : proxy'.wires[n] = proxy.wires[n]
            /\ \A w \in Wires :
                    proxy.wire_to_net[w] \notin {NoNet, PassANet}
                        => proxy'.wire_to_net[w] = proxy.wire_to_net[w]
            /\ \A p \in PipIds :
                    proxy.pip_to_net[p] \notin {NoNet, PassANet}
                        => proxy'.pip_to_net[p] = proxy.pip_to_net[p]]_vars

\* a net was routed in Pass A next to a wire that another net holds: a pip
\* leads from a wire of the net into that wire
C16_Witness ==
    /\ pc = "passA"
    /\ router.rpc = "returned"
    /\ router.routedOkay
    /\ \E p \in PipIds :
          /\ getPipSrcWire(p) \in DOMAIN proxy.wires[router.net_name]
          /\ getPipSrcWire(p) \notin Range(D.nets[router.net_name].users)
          /\ proxy.wire_to_net[getPipDstWire(p)] \notin {NoNet, router.net_name}

\* the entry a pass of the search loop popped: the queue holds it once less
Popped ==
    CHOOSE e \in BagToSet(search.queue) :
        CopiesIn(e, search'.queue) < CopiesIn(e, search.queue)

\* the cost C17 gives to the neighbour over pip p of an entry at delay d
CostOfNeighbour(d, p) ==
    LET w == getPipDstWire(p)
        netAtWire == proxy.wire_to_net[w]
        netAtPip == proxy.pip_to_net[p]
        wireCost == IF netAtWire = NoNet THEN 0
                    ELSE (router.scores.wireScores[w] * router.ripup_penalty) \div 8
                         + router.scores.netWireScores[<<netAtWire, w>>]
                           * router.ripup_penalty
        pipCost == IF netAtPip = NoNet THEN 0
                   ELSE (router.scores.pipScores[p] * router.ripup_penalty) \div 8
                        + router.scores.netPipScores[<<netAtPip, p>>]
                          * router.ripup_penalty
        flat == IF netAtWire # NoNet \/ netAtPip # NoNet
                THEN router.ripup_penalty ELSE 0
    IN  d + avgDelay(p) + wireCost + pipCost + flat

\* C17: every entry a pass of the search loop writes to visited is over a
\* downhill pip p of the popped wire and has the delay of the popped entry
\* plus avgDelay(p), plus the history penalties of an unavailable wire and
\* of an unavailable pip, plus ripup_penalty once if either is unavailable;
\* it is the delay plus avgDelay(p) when both are available, and not negative.
C17_NeighbourCost ==
    [][(router.rpc \in {"search", "probe"} /\ router'.rpc = router.rpc) =>
        \A w \in DOMAIN router'.visited :
            (w \notin DOMAIN router.visited \/ router'.visited[w] # router.visited[w]) =>
                LET e == router'.visited[w]
                IN  /\ e.pip # NoPip
                    /\ getPipSrcWire(e.pip) = Popped.wire
                    /\ getPipDstWire(e.pip) = w
                    /\ e.delay = CostOfNeighbour(Popped.delay, e.pip)
                    /\ e.delay >= 0
                    /\ (checkWireAvail(proxy, w) /\ checkPipAvail(proxy, e.pip))
                         => e.delay = Popped.delay + avgDelay(e.pip)]_vars

\* a rip-up search has entered a wire that another net holds, with the pip
\* into it, at a cost that holds a penalty of the scoreboard
C17_Witness ==
    /\ router.rpc = "search"
    /\ router.ripup
    /\ \E w \in DOMAIN router.visited :
          /\ router.visited[w].pip # NoPip
          /\ ~checkWireAvail(proxy, w)
          /\ ~checkPipAvail(proxy, router.visited[w].pip)
          /\ router.scores.wireScores[w] >= 8
          /\ router.scores.netWireScores[<<proxy.wire_to_net[w], w>>] > 0

\* the largest number of downhill pips of a wire
MaxFanout ==
    CHOOSE k \in 0..Len(D.pips) :
        /\ \A w \in Wires : Len(getPipsDownhill(w)) <= k
        /\ \E w \in Wires : Len(getPipsDownhill(w)) = k

\* C18 as stated: a search that has set thisVisitCntLimit, to (c * 3) / 2,
\* returns with thisVisitCnt at most that limit.
C18_AtMostHalfMore ==
    (/\ router.rpc \in {"search", "probe"}
     /\ ~SearchGoesOn(search)
     /\ search.thisVisitCntLimit # 0)
        => search.thisVisitCnt <= search.thisVisitCntLimit

\* C18, amended: no pass of the search loop begins with thisVisitCnt at or
\* above a limit set before; the limit is set once; a pass examines every
\* downhill pip of the wire it pops, so thisVisitCnt can pass the limit, by
\* no more than the number of downhill pips of the last popped wire.
C18_LimitCheckedPerPass ==
    /\ [][(/\ router.rpc \in {"search", "probe"}
            /\ router'.rpc = router.rpc
            /\ search' # search
            /\ search'.thisVisitCntLimit # 0)
           => (/\ search.thisVisitCnt <= search'.thisVisitCntLimit
               /\ search.thisVisitCntLimit # 0
                    => /\ search.thisVisitCnt < search.thisVisitCntLimit
                       /\ search'.thisVisitCntLimit = search.thisVisitCntLimit
               /\ search.thisVisitCntLimit = 0
                    => search'.thisVisitCntLimit = (search.thisVisitCnt * 3) \div 2
               /\ search'.thisVisitCnt
                    = search.thisVisitCnt + Len(getPipsDownhill(Popped.wire)))]_vars
    /\ []((router.rpc \in {"search", "probe"} /\ search.thisVisitCntLimit # 0)
           => search.thisVisitCnt <= search.thisVisitCntLimit + MaxFanout)

\* a search of the Net Router has returned with more edge examinations
\* than the limit it had set
C18_Witness ==
    /\ router.rpc = "search"
    /\ ~SearchGoesOn(search)
    /\ search.thisVisitCntLimit # 0
    /\ search.thisVisitCnt > search.thisVisitCntLimit
    /\ router.overtimeRevisitCnt > hist.over0

\* the search does not skip pip p for unavailability: its arrival cost is
\* compared with the stored delay
Passable(p) ==
    LET netAtWire == proxy.wire_to_net[getPipDstWire(p)]
        netAtPip == proxy.pip_to_net[p]
    IN  /\ netAtWire # NoNet => (router.ripup /\ netAtWire # router.net_name)
        /\ netAtPip # NoNet => (router.ripup /\ netAtPip # router.net_name)

\* C19: in a path search every wire of visited stays in visited and its
\* delay never grows; an entry is overwritten only by a delay lower by more
\* than epsilon; after a pass the stored delay of a wire is at most epsilon
\* above each arrival cost the pass computed for it; the entry of wire w
\* is for w, with a pip into w, or with no pip if w is a source wire.
C19_VisitedDelayOnlyFalls ==
    /\ [][(router.rpc \in {"search", "probe"} /\ router'.rpc = router.rpc) =>
            /\ \A w \in DOMAIN router.visited :
                    /\ w \in DOMAIN router'.visited
                    /\ router'.visited[w].delay <= router.visited[w].delay
                    /\ router'.visited[w] # router.visited[w]
                         => router'.visited[w].delay
                              < router.visited[w].delay - getDelayEpsilon
            /\ search' # search =>
                    \A i \in DOMAIN getPipsDownhill(Popped.wire) :
                        LET p == getPipsDownhill(Popped.wire)[i]
                            w == getPipDstWire(p)
                        IN  Passable(p) =>
                                /\ w \in DOMAIN router'.visited
                                /\ router'.visited[w].delay
                                     <= CostOfNeighbour(Popped.delay, p)
                                        + getDelayEpsilon]_vars
    /\ [](router.rpc \in {"search", "probe"} =>
            \A w \in DOMAIN router.visited :
                /\ router.visited[w].wire = w
                /\ IF router.visited[w].pip = NoPip
                   THEN w \in DOMAIN router.src_wires
                   ELSE getPipDstWire(router.visited[w].pip) = w)

\* a search has kept the delay 4 of the sink when it computed the arrival
\* cost 3 for it, which is lower by no more than epsilon
C19_Witness ==
    /\ router.rpc = "search"
    /\ getDelayEpsilon > 0
    /\ router.overtimeRevisitCnt > hist.over0
    /\ router.dst_wire \in DOMAIN router.visited
    /\ ~SearchGoesOn(search)
    /\ router.visited[router.dst_wire].delay
         = LeastArrival[router.dst_wire] + getDelayEpsilon

\* C20: every entry pushed in a pass of the search, a source entry or the
\* entry of a neighbour, has as randtag the rng() value drawn at its push.
C20_PushedEntryCarriesFreshTag ==
    router.rpc \in {"search", "probe"} =>
        \A w \in DOMAIN hist.drawn :
            /\ w \in DOMAIN router.visited
            /\ router.visited[w].randtag = hist.drawn[w]

\* the wires bound to net, and the pips bound to net that arrive at wire
BoundWires(net) == {w \in Wires : proxy.wire_to_net[w] = net}

ArrivingPips(net, wire) ==
    {p \in PipIds : proxy.pip_to_net[p] = net /\ getPipDstWire(p) = wire}

\* the Net Router is at work on its net: it has not returned
RouterAtWork == router.rpc \in {"sink", "search", "backtrace"}

\* no back-trace of the Net Router is under way
BacktraceOver ==
    router.rpc = "backtrace" => router.cursor \in DOMAIN router.src_wires

\* C21: while the Net Router routes net N, the keys of src_wires are the
\* wires bound to N, the driver wire has delay 0 and every wire the
\* back-trace enters gets the visited delay of the search that reached it
\* and keeps it; the back-trace binds nothing once its cursor is a wire of
\* src_wires; the driver wire has no bound arriving pip and every other
\* bound wire of N has exactly one; and after each sink's back-trace the
\* bound pips of N form a tree rooted at the driver wire: walking back over
\* them from any bound wire reaches the driver wire.
C21_SrcWiresAreTheBoundTree ==
    /\ [](RouterAtWork =>
            LET net == router.net_name
            IN  /\ DOMAIN router.src_wires = BoundWires(net)
                /\ DOMAIN proxy.wires[net] = BoundWires(net)
                /\ router.src_wires[src_wire_of(net)] = 0
                /\ ArrivingPips(net, src_wire_of(net)) = {}
                /\ \A w \in BoundWires(net) \ {src_wire_of(net)} :
                     /\ ArrivingPips(net, w) = {proxy.wires[net][w]}
                     /\ (BacktraceOver => ReachesDriver(net, w, D.nwires)))
    /\ [][RouterAtWork /\ router'.rpc \in {"sink", "search", "backtrace"} =>
            /\ \A w \in DOMAIN router.src_wires :
                 /\ w \in DOMAIN router'.src_wires
                 /\ router'.src_wires[w] = router.src_wires[w]
            /\ \A w \in DOMAIN router'.src_wires \ DOMAIN router.src_wires :
                 /\ router.rpc = "backtrace"
                 /\ w = router.cursor
                 /\ router'.src_wires[w] = router.visited[w].delay
            /\ (router.rpc = "backtrace" /\ router.cursor \in DOMAIN router.src_wires
                  => proxy' = proxy /\ router'.src_wires = router.src_wires)]_vars

\* the back-trace of a later sink has bound pips and its cursor is now a
\* wire of the spine that is not the driver wire
C21_Witness ==
    /\ router.rpc = "backtrace"
    /\ router.cursor # router.dst_wire
    /\ router.cursor \in DOMAIN router.src_wires
    /\ router.cursor # src_wire_of(router.net_name)
    /\ Len(router.users_array) < Len(D.nets[router.net_name].users) - 1

\* stepping from cursor to the source wire of visited[cursor].pip reaches a
\* wire of src without meeting a wire that is absent from visited, a wire
\* whose stored pip is none, or a wire of seen, the wires met so far
RECURSIVE ChainEnds(_, _, _, _)
ChainEnds(visited, src, cursor, seen) ==
    IF cursor \in src THEN TRUE
    ELSE /\ cursor \notin seen
         /\ cursor \in DOMAIN visited
         /\ visited[cursor].pip # NoPip
         /\ ChainEnds(visited, src, getPipSrcWire(visited[cursor].pip),
                      seen \cup {cursor})

\* the number of steps from cursor to a wire of src, at most fuel
RECURSIVE StepsToSource(_, _, _, _)
StepsToSource(visited, src, cursor, fuel) ==
    IF cursor \in src \/ fuel = 0 \/ cursor \notin DOMAIN visited THEN 0
    ELSE IF visited[cursor].pip = NoPip THEN 0
    ELSE 1 + StepsToSource(visited, src, getPipSrcWire(visited[cursor].pip), fuel - 1)

\* C22: in every state of a search of the Net Router, and so when the search
\* ends with the destination in visited (cut off by the visit budget or
\* not), the predecessor chain of every wire of visited reaches a wire of
\* src_wires without meeting an absent wire, a stored pip that is none or
\* the same wire twice; the back-trace walks that chain: each pass of its
\* loop that does not abort moves the cursor to the source wire of the
\* stored pip and leaves the chain one step shorter, so it reaches a wire
\* of src_wires and never reads an entry that is not there.
C22_BacktraceTerminates ==
    /\ [](router.rpc = "search" =>
            \A w \in DOMAIN router.visited :
                ChainEnds(router.visited, DOMAIN router.src_wires, w, {}))
    /\ [](router.rpc = "backtrace" =>
            ChainEnds(router.visited, DOMAIN router.src_wires, router.cursor, {}))
    /\ [](result # "undefined")
    /\ [][router.rpc = "backtrace" /\ router.cursor \notin DOMAIN router.src_wires =>
            \/ pc' = "done" /\ result' = "assert"
            \/ /\ router'.rpc = "backtrace"
               /\ router'.visited = router.visited
               /\ router'.cursor = getPipSrcWire(router.visited[router.cursor].pip)
               /\ StepsToSource(router'.visited, DOMAIN router'.src_wires,
                                router'.cursor, D.nwires)
                    < StepsToSource(router.visited, DOMAIN router.src_wires,
                                    router.cursor, D.nwires)]_vars

\* the back-trace has stepped over a zero-delay pip of a cycle, after a
\* search that overwrote an entry of visited and was cut off by the budget
C22_Witness ==
    /\ router.rpc = "backtrace"
    /\ router.cursor # router.dst_wire
    /\ router.revisitCnt > hist.rev0
    /\ hist.cutOff
    /\ \E w \in DOMAIN router.src_wires \ {src_wire_of(router.net_name)} :
         /\ router.visited[w].pip # NoPip
         /\ avgDelay(router.visited[w].pip) = 0

\* C23: when the Net Router binds the driver wire of its net, in Pass A and
\* in Pass B, after the net's own rip-up, the wire is not bound to another
\* net.
C23_DriverWireFreeAtBind ==
    [][(/\ pc \in {"passA", "passB"}
        /\ router.rpc = "idle"
        /\ router'.net_name # NoNet)
       => LET net == router'.net_name
              ripped == ripup_net(proxy, net)
          IN  ripped.wire_to_net[src_wire_of(net)] \in {NoNet, net}]_vars

====
